---- MODULE Spec2Model ----
(***************************************************************************)
(* A model of githubapp: the lazy resource (LazyCompletableGithubObject),  *)
(* the webhook event classifier (Event.normalize_dicts / Event.get_event)  *)
(* and the configuration store (ConfigValue).                              *)
(***************************************************************************)
EXTENDS Integers, Sequences, FiniteSets, TLC

VARIABLES
    bases,                  \* clazz.__bases__ of every resource class
    Event_installation_id,  \* the class attribute Event.installation_id
    obj,                    \* the lazy instance's __dict__ (NoObject before any)
    built_under,            \* Event.installation_id when obj was constructed
    reads,                  \* attribute reads made on obj so far
    exchanges,              \* successful token exchanges made for obj so far
    fetched,                \* fields whose read got a fetch response for obj
    built_unset,            \* fields the attributes obj was built from did not carry
    last,                   \* what the last operation did (its observable outcome)
    req_headers,            \* the webhook request's headers
    req_body,               \* the webhook request's decoded body
    called,                 \* the classifier operations applied to the request
    req_union,              \* what normalize_dicts(headers, body) returned
    event_class,            \* what Event.get_event(headers, body) returned
    config,                 \* the attributes of Config, the root ConfigValue
    cfg_last                \* what the last configuration operation did

lazyVars ==
    <<bases, Event_installation_id, obj, built_under, reads, exchanges, fetched,
      built_unset, last>>
routerVars == <<req_headers, req_body, called, req_union, event_class>>
configVars == <<config, cfg_last>>
vars == <<lazyVars, routerVars, configVars>>

----------------------------------------------------------------------------
(* Bounds *)

\* attribute reads made on one lazy instance
MaxReads == 3
\* depth of nested __getattribute__ calls before Python gives up (RecursionError)
MaxDepth == 5

----------------------------------------------------------------------------
(* Values *)

\* Python values of an installation id: None, an int, or a decimal string
NoneVal == [t |-> "none", v |-> 0]
IntVal(n) == [t |-> "int", v |-> n]
StrVal(n) == [t |-> "str", v |-> n]

\* what a webhook body may carry as installation.id (absent = None)
RawInstallationIds == {NoneVal, IntVal(0), IntVal(55), IntVal(66), StrVal(66)}

\* Python truthiness of such a value ("" is not among the inputs)
Truthy(x) == x.t # "none" /\ ~(x.t = "int" /\ x.v = 0)

\* int(x)
ToInt(x) == IntVal(x.v)

\* the declared attributes of the resource class; url is the fetch target
Fields == {"url", "attr1"}
\* the instance attribute holding each declared attribute
Private == [url |-> "_url", attr1 |-> "_attr1"]
PrivateItems == {Private[f] : f \in Fields}
FieldOf(item) == CHOOSE f \in Fields : Private[f] = item

\* a payload or the constructor's attributes, by declared attribute: the key is
\* missing, maps to null, or maps to a string
Payloads == [Fields -> {"Missing", "Null", "v2"}]
InitialAttributes == [Fields -> {"Missing", "Null", "v1"}]
NoAttributes == [f \in Fields |-> "Missing"]

\* a requester slot of the instance: not in __dict__, None, or a Requester
\* authenticated with the token of one installation
AbsentReq == [kind |-> "Absent", inst |-> NoneVal]
NoneReq == [kind |-> "None", inst |-> NoneVal]
Requester(inst) == [kind |-> "Requester", inst |-> inst]

\* the resource classes and their bases as declared
LazyBase == "LazyCompletableGithubObject"
Classes == {"LazyClass", "MixinClass", "DeclaredLazy"}
DeclaredBases ==
    [c \in Classes |->
        CASE c = "LazyClass" -> <<"CompletableGithubObject">>
          [] c = "MixinClass" -> <<"Mixin", "CompletableGithubObject">>
          [] OTHER -> <<LazyBase>>]

\* an instance whose __dict__ is still empty
EmptyDict(cls) ==
    [cls |-> cls, lazy_initialized |-> "Absent", lazy_requester |-> AbsentReq,
     requester |-> AbsentReq, completed |-> "Absent",
     attrs |-> [f \in Fields |-> "Absent"]]
NoObject == EmptyDict("none")

\* the outcomes of the outside world during one read: the token exchange (no
\* private key to be found, denied, or granted) and, once granted, the GET's
\* answer (an error or a payload)
Env(token, get, payload) == [token |-> token, get |-> get, payload |-> payload]
Envs ==
    {Env("nokey", "error", NoAttributes), Env("denied", "error", NoAttributes),
     Env("ok", "error", NoAttributes)}
    \cup {Env("ok", "ok", p) : p \in Payloads}
QuietEnv == Env("ok", "error", NoAttributes)

\* the running account of one operation
World(o) == [o |-> o, gets |-> 0, tried |-> 0, exch |-> 0, nested |-> 0, active |-> 0,
             used |-> NoneVal]
Ok(w, v) == [w |-> w, val |-> v, err |-> "none"]
Raise(w, e) == [w |-> w, val |-> "None", err |-> e]

\* Attribute.value: NotSet.value and a null attribute both read as None
ValueOf(a) == IF a \in {"NotSet", "Null", "Absent"} THEN "None" ELSE a

----------------------------------------------------------------------------
(* LazyCompletableGithubObject *)

RECURSIVE GetAttribute(_, _, _, _)

\* item.startswith("_lazy"), over the names the model reads
StartsWithLazy(item) == item \in {"_lazy_initialized", "_lazy_requester"}

NeedsFetch_NoPrefixTest(w, item, value, env, fuel) ==
    LET r1 == GetAttribute(w, "_lazy_initialized", env, fuel) IN
    IF r1.err # "none" THEN r1
    ELSE IF r1.val # "True" THEN Ok(r1.w, "False")
    ELSE LET r2 == GetAttribute(r1.w, "_lazy_requester", env, fuel) IN
         IF r2.err # "none" THEN r2
         ELSE IF r2.val # "None" THEN Ok(r2.w, "False")
         ELSE Ok(r2.w, IF value = "None" THEN "True" ELSE "False")

\* the condition of __getattribute__, left to right with short circuit; each
\* self.<name> in it is itself an attribute read
NeedsFetch(w, item, value, env, fuel) ==
    IF StartsWithLazy(item) THEN Ok(w, "False")
    ELSE LET r1 == GetAttribute(w, "_lazy_initialized", env, fuel) IN
         IF r1.err # "none" THEN r1
         ELSE IF r1.val # "True" THEN Ok(r1.w, "False")
         ELSE LET r2 == GetAttribute(r1.w, "_lazy_requester", env, fuel) IN
              IF r2.err # "none" THEN r2
              ELSE IF r2.val # "None" THEN Ok(r2.w, "False")
              ELSE Ok(r2.w, IF value = "None" THEN "True" ELSE "False")

\* the lazy_requester property
LazyRequesterProperty(w, env, fuel) ==
    LET r1 == GetAttribute(w, "_lazy_requester", env, fuel) IN
    IF r1.err # "none" THEN r1
    ELSE IF r1.val # "None" THEN GetAttribute(r1.w, "_lazy_requester", env, fuel)
    ELSE LET w1 == [r1.w EXCEPT !.tried = @ + 1] IN
         IF env.token = "nokey" THEN Raise(w1, "FileNotFoundError")
         ELSE IF env.token = "denied" THEN Raise(w1, "GithubException")
         ELSE LET w2 == [w1 EXCEPT !.o.lazy_requester = Requester(Event_installation_id),
                                   !.exch = @ + 1,
                                   !.used = Event_installation_id]
              IN GetAttribute(w2, "_lazy_requester", env, fuel)

\* a declared attribute's property (attr1 of the test's LazyClass): the object
\* is built completed, so _completeIfNotSet itself requests nothing
AttrProperty(w, f, env, fuel) ==
    LET r1 == GetAttribute(w, "_completeIfNotSet", env, fuel) IN
    IF r1.err # "none" THEN r1
    ELSE LET r2 == GetAttribute(r1.w, Private[f], env, fuel) IN
         IF r2.err # "none" THEN r2
         ELSE LET r3 == GetAttribute(r2.w, Private[f], env, fuel) IN
              IF r3.err # "none" THEN r3
              ELSE Ok(r3.w, ValueOf(r3.w.o.attrs[f]))

\* super().__getattribute__(item): the plain lookup, running a property's body
PlainGet(w, item, env, fuel) ==
    CASE item = "_lazy_initialized" ->
            IF w.o.lazy_initialized = "Absent" THEN Raise(w, "AttributeError")
            ELSE Ok(w, w.o.lazy_initialized)
      [] item = "_lazy_requester" ->
            IF w.o.lazy_requester.kind = "Absent" THEN Raise(w, "AttributeError")
            ELSE Ok(w, IF w.o.lazy_requester.kind = "None" THEN "None" ELSE "object")
      [] item = "_requester" ->
            IF w.o.requester.kind = "Absent" THEN Raise(w, "AttributeError")
            ELSE Ok(w, IF w.o.requester.kind = "None" THEN "None" ELSE "object")
      [] item \in PrivateItems ->
            IF w.o.attrs[FieldOf(item)] = "Absent" THEN Raise(w, "AttributeError")
            ELSE Ok(w, "object")
      [] item = "lazy_requester" -> LazyRequesterProperty(w, env, fuel)
      [] item \in Fields -> AttrProperty(w, item, env, fuel)
      [] OTHER -> Ok(w, "object")

\* CompletableGithubObject.__init__ as the test's LazyClass specialises it:
\* _initAttributes makes every declared attribute NotSet, _useAttributes stores
\* the ones the attributes carry
UseAttributes(attributes) ==
    [f \in Fields |-> IF attributes[f] = "Missing" THEN "NotSet" ELSE attributes[f]]

\* LazyCompletableGithubObject.__init__ on a fresh instance of cls; the result's
\* world holds the new instance
Construct(w, cls, requester, attributes, completed, env, fuel) ==
    LET o1 == [EmptyDict(cls) EXCEPT !.lazy_initialized = "False",
                                     !.requester = requester]
        r1 == GetAttribute([w EXCEPT !.o = o1], "_initAttributes", env, fuel)
    IN
    IF r1.err # "none" THEN r1
    ELSE LET w2 == [r1.w EXCEPT !.o.attrs = [f \in Fields |-> "NotSet"]]
             r2 == GetAttribute(w2, "_useAttributes", env, fuel)
         IN
         IF r2.err # "none" THEN r2
         ELSE Ok([r2.w EXCEPT !.o.attrs = UseAttributes(attributes),
                              !.o.completed = completed,
                              !.o.lazy_initialized = "True",
                              !.o.lazy_requester = NoneReq], "object")

DictUpdate_Merge(old, new) ==
    [new EXCEPT !.attrs = [f \in Fields |->
                              IF new.attrs[f] = "NotSet" THEN old.attrs[f] ELSE new.attrs[f]]]

\* self.__dict__.update(new_self.__dict__): every key of the new instance's
\* __dict__ replaces the old one's (both are instances of one class)
DictUpdate(old, new) ==
    [cls |-> old.cls,
     lazy_initialized |-> IF new.lazy_initialized = "Absent" THEN old.lazy_initialized
                          ELSE new.lazy_initialized,
     lazy_requester |-> IF new.lazy_requester.kind = "Absent" THEN old.lazy_requester
                        ELSE new.lazy_requester,
     requester |-> IF new.requester.kind = "Absent" THEN old.requester ELSE new.requester,
     completed |-> IF new.completed = "Absent" THEN old.completed ELSE new.completed,
     attrs |-> [f \in Fields |->
                   IF new.attrs[f] = "Absent" THEN old.attrs[f] ELSE new.attrs[f]]]

\* the body of the if in __getattribute__: request, rebuild, update, read again
Fetch(w, item, env, fuel) ==
    LET w1 == [w EXCEPT !.active = @ + 1,
                        !.nested = @ + (IF w.active > 0 THEN 1 ELSE 0)]
        r1 == GetAttribute(w1, "lazy_requester", env, fuel)
    IN
    IF r1.err # "none" THEN r1
    ELSE LET r2 == GetAttribute(r1.w, "url", env, fuel) IN
    IF r2.err # "none" THEN r2
    ELSE LET w3 == [r2.w EXCEPT !.gets = @ + 1] IN
    IF r2.val = "None" \/ env.get = "error" THEN Raise(w3, "GithubException")
    ELSE LET r3 == GetAttribute(w3, "__class__", env, fuel) IN
    IF r3.err # "none" THEN r3
    ELSE LET r4 == GetAttribute(r3.w, "lazy_requester", env, fuel) IN
    IF r4.err # "none" THEN r4
    ELSE LET self == r4.w.o
             n == Construct(r4.w, self.cls, self.lazy_requester, env.payload, "True",
                            env, fuel)
         IN
    IF n.err # "none" THEN Raise([n.w EXCEPT !.o = self], n.err)
    ELSE LET r5 == GetAttribute([n.w EXCEPT !.o = self], "__dict__", env, fuel) IN
    IF r5.err # "none" THEN r5
    ELSE LET w6 == [r5.w EXCEPT !.o = DictUpdate(self, n.w.o)]
             r6 == PlainGet(w6, item, env, fuel)
         IN [r6 EXCEPT !.w.active = @ - 1]

\* LazyCompletableGithubObject.__getattribute__
GetAttribute(w, item, env, fuel) ==
    IF fuel = 0 THEN Raise(w, "RecursionError")
    ELSE LET r0 == PlainGet(w, item, env, fuel - 1) IN
         IF r0.err # "none" THEN r0
         ELSE LET g == NeedsFetch(r0.w, item, r0.val, env, fuel - 1) IN
              IF g.err # "none" THEN Raise(g.w, g.err)
              ELSE IF g.val = "False" THEN Ok(g.w, r0.val)
              ELSE Fetch(g.w, item, env, fuel - 1)

Count(seq, x) == Cardinality({i \in DOMAIN seq : seq[i] = x})

GraftBases_Always(b) == <<LazyBase>> \o b

\* the new __bases__ of get_lazy_instance
GraftBases(b) ==
    IF Count(b, LazyBase) = 0 THEN <<LazyBase>> \o b ELSE b

----------------------------------------------------------------------------
(* Event.normalize_dicts, Event.match, Event.get_event *)

\* entries of one source dictionary (the request headers, the request body)
MaxHeaderEntries == 1
MaxBodyEntries == 2

\* strings are sequences of characters
S_XGithubEvent == <<"X", "-", "G", "i", "t", "h", "u", "b", "-", "E", "v", "e", "n", "t">>
S_event == <<"e", "v", "e", "n", "t">>
S_HookId == <<"H", "o", "o", "k", " ", "I", "d">>
S_hook_id_dash == <<"h", "o", "o", "k", "-", "i", "d">>
S_hook_id == <<"h", "o", "o", "k", "_", "i", "d">>
S_action == <<"a", "c", "t", "i", "o", "n">>
S_prefix == <<"x", "-", "g", "i", "t", "h", "u", "b", "-">>

RequestKeys == {S_XGithubEvent, S_event, S_HookId, S_hook_id_dash, S_action}
RequestValues == {"push", "ping"}

UpperCase == <<"A", "B", "C", "D", "E", "F", "G", "H", "I", "J", "K", "L", "M", "N", "O", "P", "Q", "R", "S", "T", "U", "V", "W", "X", "Y", "Z">>
LowerCase == <<"a", "b", "c", "d", "e", "f", "g", "h", "i", "j", "k", "l", "m", "n", "o", "p", "q", "r", "s", "t", "u", "v", "w", "x", "y", "z">>

\* str.lower()
LowerChar(c) ==
    IF \E i \in DOMAIN UpperCase : UpperCase[i] = c
    THEN LowerCase[CHOOSE i \in DOMAIN UpperCase : UpperCase[i] = c]
    ELSE c
Lower(s) == [i \in DOMAIN s |-> LowerChar(s[i])]

\* str.replace(old, new): every occurrence, left to right, without overlap
RECURSIVE Replace(_, _, _)
Replace(s, old, new) ==
    IF Len(s) < Len(old) THEN s
    ELSE IF SubSeq(s, 1, Len(old)) = old
         THEN new \o Replace(SubSeq(s, Len(old) + 1, Len(s)), old, new)
         ELSE <<s[1]>> \o Replace(Tail(s), old, new)

\* re.sub(r"[- ]", "_", attr)
SubDashSpace(s) == [i \in DOMAIN s |-> IF s[i] \in {"-", " "} THEN "_" ELSE s[i]]

\* the three rewrites normalize_dicts applies to a key
NormalizeKey(attr) == SubDashSpace(Replace(Lower(attr), S_prefix, <<>>))

\* a dict is the sequence of its items in insertion order, its keys distinct
IsDict(d) == \A i, j \in DOMAIN d : i # j => d[i][1] # d[j][1]
DictsUpTo(n) ==
    {d \in UNION {[1..k -> RequestKeys \X RequestValues] : k \in 0..n} : IsDict(d)}

EmptyUnion == [k \in {} |-> "none"]

NormalizeStore_KeepFirst(union_dict, attr, value) ==
    IF attr \in DOMAIN union_dict THEN union_dict
    ELSE [k \in DOMAIN union_dict \cup {attr} |-> IF k = attr THEN value ELSE union_dict[k]]

\* union_dict[attr] = value
NormalizeStore(union_dict, attr, value) ==
    [k \in DOMAIN union_dict \cup {attr} |-> IF k = attr THEN value ELSE union_dict[k]]

\* the inner loop of normalize_dicts over one dict's items
RECURSIVE NormalizeItems(_, _)
NormalizeItems(union_dict, d) ==
    IF d = <<>> THEN union_dict
    ELSE NormalizeItems(NormalizeStore(union_dict, NormalizeKey(d[1][1]), d[1][2]), Tail(d))

\* Event.normalize_dicts(*dicts)
RECURSIVE NormalizeFrom(_, _)
NormalizeFrom(union_dict, dicts) ==
    IF dicts = <<>> THEN union_dict
    ELSE NormalizeFrom(NormalizeItems(union_dict, dicts[1]), Tail(dicts))
normalize_dicts(dicts) == NormalizeFrom(EmptyUnion, dicts)

\* the registered event classes: cls.__subclasses__() in registration order
EventClasses == {"Event", "PushEvent", "PushFromHook", "PushAction", "PingEvent", "AnyPing"}
Subclasses(cls) ==
    CASE cls = "Event" -> <<"PushEvent", "PingEvent", "AnyPing">>
      [] cls = "PushEvent" -> <<"PushFromHook", "PushAction">>
      [] OTHER -> <<>>

\* each subclass's event_identifier
EventIdentifier(cls) ==
    CASE cls = "PushEvent" -> (S_event :> "push")
      [] cls = "PushFromHook" -> (S_hook_id :> "ping")
      [] cls = "PushAction" -> (S_action :> "push" @@ S_hook_id :> "ping")
      [] cls = "PingEvent" -> (S_event :> "ping" @@ S_action :> "ping")
      [] cls = "AnyPing" -> (S_action :> "ping")
      [] OTHER -> EmptyUnion

\* Event.match
Match(cls, data) ==
    \A attr \in DOMAIN EventIdentifier(cls) :
        attr \in DOMAIN data /\ EventIdentifier(cls)[attr] = data[attr]

MatchingSubclasses(cls, headers, body) ==
    {i \in DOMAIN Subclasses(cls) :
        Match(Subclasses(cls)[i], normalize_dicts(<<headers, body>>))}

FirstOf(S) == CHOOSE i \in S : \A j \in S : i <= j
LastOf(S) == CHOOSE i \in S : \A j \in S : j <= i

RECURSIVE get_event(_, _, _)

get_event_LastMatch(cls, headers, body) ==
    LET m == MatchingSubclasses(cls, headers, body) IN
    IF m = {} THEN cls ELSE get_event(Subclasses(cls)[LastOf(m)], headers, body)

\* Event.get_event
get_event(cls, headers, body) ==
    LET m == MatchingSubclasses(cls, headers, body) IN
    IF m = {} THEN cls ELSE get_event(Subclasses(cls)[FirstOf(m)], headers, body)

----------------------------------------------------------------------------
(* ConfigValue *)

\* characters of a dotted configuration name
MaxPathLen == 3

\* attribute names are strings (sequences of characters); these two get set
CfgNames == {<<"a">>, <<"b">>}
PathChars == {"a", "b", "."}
ConfigPaths == UNION {[1..k -> PathChars] : k \in 0..MaxPathLen}

\* the value of an attribute of a nested ConfigValue: not set, or a scalar
Leaf(kind, val) == [kind |-> kind, val |-> val]
MissingLeaf == Leaf("missing", "")
NoSub == [n \in CfgNames |-> MissingLeaf]
\* the value of an attribute of the root ConfigValue: not set, a scalar, or a
\* nested ConfigValue with its own attributes
Node(kind, val, sub) == [kind |-> kind, val |-> val, sub |-> sub]
MissingNode == Node("missing", "", NoSub)
ScalarNode(v) == Node("scalar", v, NoSub)
ConfigNode(sub) == Node("config", "", sub)

\* data handed to set_values: dicts as item sequences in insertion order; a
\* value is a scalar or a dict of scalars
LeafData == {d \in UNION {[1..k -> (CfgNames \X {"s"})] : k \in 0..1} : TRUE}
DataValues == {[kind |-> "scalar", val |-> "s", items |-> <<>>]}
              \cup {[kind |-> "dict", val |-> "", items |-> d] : d \in LeafData}
ConfigData ==
    {d \in UNION {[1..k -> (CfgNames \X DataValues)] : k \in 0..2} :
        \A i, j \in DOMAIN d : i # j => d[i][1] # d[j][1]}

\* the default argument of create_config: None, a scalar, or a falsy scalar
\* (0, "", False), written ""
CreateDefaults == {"None", "s", ""}
NoDefault == "__NO_DEFAULT__"
GetDefaults == {NoDefault, "d"}

\* ConfigValue.set_values on a nested ConfigValue, whose data holds scalars
RECURSIVE SetLeafValues(_, _)
SetLeafValues(sub, items) ==
    IF items = <<>> THEN sub
    ELSE SetLeafValues([sub EXCEPT ![items[1][1]] = Leaf("scalar", items[1][2])],
                       Tail(items))

\* ConfigValue.set_values on the root: a dict value is merged into the attribute
\* already there (getattr(self, attr, ConfigValue())), anything else is set
RECURSIVE SetValues(_, _)
SetValues(cfg, data) ==
    IF data = <<>> THEN [cfg |-> cfg, err |-> "none"]
    ELSE LET attr == data[1][1]
             value == data[1][2]
         IN
         IF value.kind = "dict"
         THEN IF cfg[attr].kind = "scalar"
              THEN [cfg |-> cfg, err |-> "AttributeError"]
              ELSE SetValues([cfg EXCEPT ![attr] =
                                 ConfigNode(SetLeafValues(cfg[attr].sub, value.items))],
                             Tail(data))
         ELSE SetValues([cfg EXCEPT ![attr] = ScalarNode(value.val)], Tail(data))

\* ConfigValue.create_config(name, default=default, **values)
CreateConfigResult(cfg, name, default, values) ==
    IF default # "None" /\ values # <<>>
    THEN [cfg |-> cfg, err |-> "ConfigError"]
    ELSE LET made == IF default \notin {"None", ""} THEN ScalarNode(default)
                     ELSE ConfigNode(SetLeafValues(NoSub, values))
         IN [cfg |-> [cfg EXCEPT ![name] = made], err |-> "none"]

\* str.split(sep) for a one-character separator
RECURSIVE Split(_, _)
Split(s, sep) ==
    IF \A i \in DOMAIN s : s[i] # sep THEN <<s>>
    ELSE LET i == CHOOSE k \in DOMAIN s : s[k] = sep /\ \A j \in 1..(k - 1) : s[j] # sep
         IN <<SubSeq(s, 1, i - 1)>> \o Split(SubSeq(s, i + 1, Len(s)), sep)

\* what get holds while it walks the path: the root ConfigValue, a nested one,
\* or a scalar
RootValue == [kind |-> "root", val |-> "", sub |-> NoSub]

\* getattr(value, name): the attribute, or the error raised for want of it
\* (ConfigValue.__getattr__ raises ConfigError; a scalar raises AttributeError)
GetAttr(cfg, value, name) ==
    CASE value.kind = "root" ->
            IF name \in CfgNames /\ cfg[name].kind # "missing"
            THEN [value |-> cfg[name], err |-> "none"]
            ELSE [value |-> value, err |-> "ConfigError"]
      [] value.kind = "config" ->
            IF name \in CfgNames /\ value.sub[name].kind # "missing"
            THEN [value |-> ScalarNode(value.sub[name].val), err |-> "none"]
            ELSE [value |-> value, err |-> "ConfigError"]
      [] OTHER -> [value |-> value, err |-> "AttributeError"]

\* the loop of ConfigValue.get over the names of the path
RECURSIVE GetWalk(_, _, _, _)
GetWalk(cfg, value, names, default) ==
    IF names = <<>> THEN [value |-> value, err |-> "none"]
    ELSE LET r == GetAttr(cfg, value, names[1]) IN
         IF r.err = "none" THEN GetWalk(cfg, r.value, Tail(names), default)
         ELSE IF default = NoDefault THEN r
         ELSE GetWalk(cfg, ScalarNode(default), Tail(names), default)

\* ConfigValue.get(config_name, default)
ConfigGet(cfg, config_name, default) ==
    GetWalk(cfg, RootValue, Split(config_name, "."), default)

----------------------------------------------------------------------------
(* State machines *)

\* the names a caller reads on the instance
Items == Fields \cup {"_lazy_initialized", "_lazy_requester", "lazy_requester",
                      "_requester"}

NoPayload == NoAttributes

LastDefault ==
    [op |-> "init", item |-> "none", cls |-> "none", err |-> "none", val |-> "None",
     gets |-> 0, tried |-> 0, exch |-> 0, nested |-> 0, used |-> NoneVal,
     payload |-> NoPayload, unsetBefore |-> FALSE, again |-> FALSE, first |-> FALSE,
     prevErr |-> "none"]

\* no request is being classified
RouterIdle ==
    /\ req_headers = <<>>
    /\ req_body = <<>>
    /\ called = {}
    /\ req_union = EmptyUnion
    /\ event_class = "none"

CfgLastDefault ==
    [op |-> "init", path |-> <<>>, default |-> NoDefault, err |-> "none",
     value |-> MissingNode]

\* Config = ConfigValue()
ConfigInit ==
    /\ config = [n \in CfgNames |-> MissingNode]
    /\ cfg_last = CfgLastDefault

LazyInit ==
    /\ bases = DeclaredBases
    /\ Event_installation_id = NoneVal
    /\ obj = NoObject
    /\ built_under = NoneVal
    /\ reads = 0
    /\ exchanges = 0
    /\ fetched = {}
    /\ built_unset = {}
    /\ last = LastDefault

\* Event.__init__: the class-level installation id of the event being handled
EventInit(raw) ==
    /\ Event_installation_id' = IF Truthy(raw) THEN ToInt(raw) ELSE raw
    /\ last' = [LastDefault EXCEPT !.op = "event"]
    /\ UNCHANGED <<bases, obj, built_under, reads, exchanges, fetched, built_unset>>
    /\ UNCHANGED <<routerVars, configVars>>

\* LazyCompletableGithubObject.get_lazy_instance(clazz, attributes)
GetLazyInstance(clazz, attributes) ==
    \E r \in {Construct(World(NoObject), clazz, NoneReq, attributes, "True",
                         QuietEnv, MaxDepth)} :
    /\ bases' = [bases EXCEPT ![clazz] = GraftBases(@)]
    /\ obj' = IF r.err = "none" THEN r.w.o ELSE obj
    /\ built_under' = IF r.err = "none" THEN Event_installation_id ELSE built_under
    /\ reads' = 0
    /\ exchanges' = 0
    /\ fetched' = {}
    /\ built_unset' = {f \in Fields : attributes[f] = "Missing"}
    /\ last' = [LastDefault EXCEPT !.op = "new", !.cls = clazz, !.err = r.err,
                                   !.gets = r.w.gets, !.tried = r.w.tried,
                                   !.nested = r.w.nested]
    /\ UNCHANGED <<Event_installation_id, routerVars, configVars>>

FetchErrors == {"FileNotFoundError", "GithubException"}

\* instance.<item>, read by the application
ReadAttribute(item, env) ==
    /\ obj # NoObject
    /\ reads < MaxReads
    /\ \E r \in {GetAttribute(World(obj), item, env, MaxDepth)} :
       LET responded == r.w.gets > 0 /\ r.err = "none"
       IN
       /\ obj' = r.w.o
       /\ reads' = reads + 1
       /\ exchanges' = exchanges + r.w.exch
       /\ fetched' = IF responded /\ item \in Fields THEN fetched \cup {item} ELSE fetched
       /\ last' = [op |-> "read", item |-> item, cls |-> obj.cls, err |-> r.err,
                   val |-> r.val, gets |-> r.w.gets, tried |-> r.w.tried,
                   exch |-> r.w.exch, nested |-> r.w.nested, used |-> r.w.used,
                   payload |-> IF responded THEN env.payload ELSE NoPayload,
                   unsetBefore |-> item \in Fields /\ ValueOf(obj.attrs[item]) = "None",
                   again |-> item \in fetched,
                   first |-> reads = 0,
                   prevErr |-> IF last.op = "read" /\ last.item = item THEN last.err
                               ELSE "none"]
    /\ UNCHANGED <<bases, Event_installation_id, built_under, built_unset>>
    /\ UNCHANGED <<routerVars, configVars>>

\* one resource class, read in every way under every outcome of the outside world
LazyNext ==
    \/ \E a \in InitialAttributes : GetLazyInstance("LazyClass", a)
    \/ \E i \in Items, e \in Envs : ReadAttribute(i, e)

Init == LazyInit /\ RouterIdle /\ ConfigInit

Spec == Init /\ [][LazyNext]_vars

\* the outcomes the application scenario draws from: the exchange is denied, or
\* the GET answers with the full representation
AppAttributes == {NoAttributes, [url |-> "v1", attr1 |-> "Missing"]}
AppEnvs == {Env("denied", "error", NoAttributes),
            Env("ok", "ok", [url |-> "v2", attr1 |-> "v2"])}

\* events arrive, resources of every class are made lazy, their fields are read
AppNext ==
    \/ \E raw \in RawInstallationIds : EventInit(raw)
    \/ \E c \in Classes, a \in AppAttributes : GetLazyInstance(c, a)
    \/ \E i \in {"attr1", "lazy_requester"}, e \in AppEnvs : ReadAttribute(i, e)

SpecApp == Init /\ [][AppNext]_vars

\* a request is drawn, normalized and classified
RouterInit ==
    /\ req_headers \in DictsUpTo(MaxHeaderEntries)
    /\ req_body \in DictsUpTo(MaxBodyEntries)
    /\ called = {}
    /\ req_union = EmptyUnion
    /\ event_class = "none"

\* Event.normalize_dicts(headers, body)
NormalizeDicts ==
    /\ "normalize_dicts" \notin called
    /\ req_union' = normalize_dicts(<<req_headers, req_body>>)
    /\ called' = called \cup {"normalize_dicts"}
    /\ UNCHANGED <<req_headers, req_body, event_class, lazyVars, configVars>>

\* Event.get_event(headers, body), called on the root class
GetEvent ==
    /\ "get_event" \notin called
    /\ event_class' = get_event("Event", req_headers, req_body)
    /\ called' = called \cup {"get_event"}
    /\ UNCHANGED <<req_headers, req_body, req_union, lazyVars, configVars>>

RouterNext == NormalizeDicts \/ GetEvent

InitRouter == LazyInit /\ RouterInit /\ ConfigInit

SpecRouter == InitRouter /\ [][RouterNext]_vars

\* Config.create_config(name, default=default, **values)
CreateConfig(name, default, values) ==
    \E r \in {CreateConfigResult(config, name, default, values)} :
    /\ config' = r.cfg
    /\ cfg_last' = [CfgLastDefault EXCEPT !.op = "create_config", !.err = r.err]
    /\ UNCHANGED <<lazyVars, routerVars>>

\* Config.load_config_from_file, the file's content being data
LoadConfig(data) ==
    \E r \in {SetValues(config, data)} :
    /\ config' = r.cfg
    /\ cfg_last' = [CfgLastDefault EXCEPT !.op = "load_config_from_file", !.err = r.err]
    /\ UNCHANGED <<lazyVars, routerVars>>

\* Config.get(config_name) and Config.get(config_name, default)
Get(config_name, default) ==
    \E r \in {ConfigGet(config, config_name, default)} :
    /\ cfg_last' = [op |-> "get", path |-> config_name, default |-> default,
                    err |-> r.err,
                    value |-> IF r.err = "none" THEN r.value ELSE MissingNode]
    /\ UNCHANGED <<config, lazyVars, routerVars>>

ConfigNext ==
    \/ \E n \in CfgNames, d \in CreateDefaults, v \in LeafData : CreateConfig(n, d, v)
    \/ \E d \in ConfigData : LoadConfig(d)
    \/ \E p \in ConfigPaths, d \in GetDefaults : Get(p, d)

SpecConfig == Init /\ [][ConfigNext]_vars

----------------------------------------------------------------------------
(* Claims about the lazy resource *)

\* C1: for a resource built with a field unset, and whatever the fetch answers,
\* the first read of the field performs exactly one fetch and every later read
\* of the same field performs none.
C1_LaterReadsFetchNothing ==
    (last.op = "read" /\ last.item \in built_unset /\ last.err = "none") =>
        /\ last.again => last.gets = 0
        /\ (last.first /\ last.unsetBefore) => last.gets = 1

\* C2: when the fetch behind a read of an unset field fails, the error reaches
\* the caller, the field stays unset, and the next read of that field attempts
\* the fetch again (token exchange or request), whichever of the two failed.
C2_FailedFetchIsRetried ==
    (last.op = "read" /\ last.item \in built_unset /\ last.unsetBefore
        /\ ValueOf(obj.attrs["url"]) # "None") =>
        /\ last.err \in FetchErrors => ValueOf(obj.attrs[last.item]) = "None"
        /\ last.prevErr \in FetchErrors =>
              (last.tried + last.gets > 0 /\ (last.gets = 0 => last.err \in FetchErrors))

\* C3: over the reads made on one resource the token exchange succeeds at most
\* once: later fetches reuse the requester built from the first token.
C3_TokenExchangedAtMostOnce == exchanges <= 1

\* C4: the installation id a resource's token exchange uses is the one of the
\* event under which the resource was constructed, whatever events were
\* constructed in between.
C4_TokenOfConstructingEvent ==
    (last.op = "read" /\ last.exch > 0 /\ Truthy(built_under) /\ Truthy(last.used)) =>
        last.used = built_under

\* what a payload gives for a field
PayloadGives(p, f) == IF p[f] = "Missing" THEN "NotSet" ELSE p[f]

\* C7: after a successful fetch triggered by reading an unset field, the read
\* returns the fetched value, the resource is complete, and every field holds
\* what the payload gives for it (replaced, not merged).
C7_FetchReplacesFields ==
    (last.op = "read" /\ last.item \in Fields /\ last.unsetBefore
        /\ last.gets > 0 /\ last.err = "none") =>
        /\ last.val = ValueOf(PayloadGives(last.payload, last.item))
        /\ obj.completed = "True"
        /\ \A f \in Fields : obj.attrs[f] = PayloadGives(last.payload, f)

\* a fetch that found attr1 and dropped the url the resource was built with
C7_Witness ==
    /\ last.op = "read" /\ last.item = "attr1" /\ last.unsetBefore
    /\ last.gets = 1 /\ last.err = "none" /\ last.val = "v2"
    /\ last.payload["url"] = "Missing" /\ obj.attrs["url"] = "NotSet"

C10_NoNestedFetch ==
    /\ last.nested = 0
    /\ last.gets <= 1
    /\ last.tried <= 1
    /\ last.err \notin {"RecursionError", "AttributeError"}
    /\ (last.op = "read" /\ StartsWithLazy(last.item)) =>
          (last.gets = 0 /\ last.tried = 0 /\ last.err = "none")
    /\ (last.op = "read" /\ last.item = "lazy_requester") => last.gets = 0
    /\ last.op = "new" => (last.gets = 0 /\ last.tried = 0 /\ last.err = "none")

\* a read whose fetch ran to its end: requester, url, class, rebuild, update
C10_Witness ==
    /\ last.op = "read" /\ last.item = "attr1" /\ last.unsetBefore
    /\ last.gets = 1 /\ last.exch = 1 /\ last.nested = 0 /\ last.err = "none"

----------------------------------------------------------------------------
(* Claims about the classifier *)

\* the items of the request in the order normalize_dicts visits them
RequestItems == req_headers \o req_body

\* C5 (as amended): when two entries normalize to the same key, the value of the
\* later entry is kept; the merged mapping holds exactly the normalized keys.
C5_LaterEntryWins ==
    "normalize_dicts" \in called =>
        /\ DOMAIN req_union = {NormalizeKey(RequestItems[i][1]) : i \in DOMAIN RequestItems}
        /\ \A i \in DOMAIN RequestItems :
              (\A j \in DOMAIN RequestItems :
                  j > i => NormalizeKey(RequestItems[j][1]) # NormalizeKey(RequestItems[i][1]))
              => req_union[NormalizeKey(RequestItems[i][1])] = RequestItems[i][2]

\* C5 (as claimed): when two entries normalize to the same key, the value of the
\* earlier entry is kept.
C5_EarlierEntryKept ==
    "normalize_dicts" \in called =>
        \A i \in DOMAIN RequestItems :
            (\A j \in DOMAIN RequestItems :
                j < i => NormalizeKey(RequestItems[j][1]) # NormalizeKey(RequestItems[i][1]))
            => req_union[NormalizeKey(RequestItems[i][1])] = RequestItems[i][2]

\* a header and a req_body entry collide after normalization, with different values
C5_Witness ==
    /\ "normalize_dicts" \in called
    /\ Len(req_headers) = 1 /\ Len(req_body) >= 1
    /\ req_headers[1][1] # req_body[1][1]
    /\ NormalizeKey(req_headers[1][1]) = NormalizeKey(req_body[1][1])
    /\ req_headers[1][2] # req_body[1][2]
    /\ req_union[NormalizeKey(req_headers[1][1])] = req_body[1][2]

ParentOf(c) == CHOOSE p \in EventClasses : \E i \in DOMAIN Subclasses(p) : Subclasses(p)[i] = c
IndexOf(c) == CHOOSE i \in DOMAIN Subclasses(ParentOf(c)) : Subclasses(ParentOf(c))[i] = c
RECURSIVE PathTo(_)
PathTo(c) == IF c = "Event" THEN {} ELSE {c} \cup PathTo(ParentOf(c))

\* C6: get_event returns a type every class on whose path from the root matched
\* and was the first of its siblings, in registration order, to match; no
\* subclass of the returned type matches; when no subclass of the root matches
\* the root itself is returned.
C6_DeepestFirstMatch ==
    "get_event" \in called =>
        LET data == normalize_dicts(<<req_headers, req_body>>) IN
        /\ event_class \in EventClasses
        /\ \A c \in PathTo(event_class) :
              /\ Match(c, data)
              /\ \A j \in 1..(IndexOf(c) - 1) : ~Match(Subclasses(ParentOf(c))[j], data)
        /\ \A i \in DOMAIN Subclasses(event_class) : ~Match(Subclasses(event_class)[i], data)
        /\ (\A i \in DOMAIN Subclasses("Event") : ~Match(Subclasses("Event")[i], data))
              => event_class = "Event"

\* a request two sibling subclasses of PushEvent match: the first registered wins
C6_Witness ==
    /\ "get_event" \in called
    /\ event_class = "PushFromHook"
    /\ Match("PushAction", normalize_dicts(<<req_headers, req_body>>))

----------------------------------------------------------------------------
(* Claims about the configuration *)

\* whether the names of a path lead to a value that was set
Resolves(cfg, names) ==
    \/ Len(names) = 1 /\ names[1] \in CfgNames /\ cfg[names[1]].kind # "missing"
    \/ /\ Len(names) = 2 /\ names[1] \in CfgNames /\ names[2] \in CfgNames
       /\ cfg[names[1]].kind = "config"
       /\ cfg[names[1]].sub[names[2]].kind # "missing"

\* C9: reading, without a default, a name that was never set raises ConfigError
\* at whatever segment of the dotted path the name is missing, also when the
\* path passes through a scalar.
C9_MissingNameRaisesConfigError ==
    (cfg_last.op = "get" /\ cfg_last.default = NoDefault
        /\ ~Resolves(config, Split(cfg_last.path, "."))) =>
        cfg_last.err = "ConfigError"

====
